---- MODULE Spec2Model ----
(***************************************************************************)
(* Model of app.py of pg2pq: a one-shot export of every base table of a    *)
(* PostgreSQL schema to a Parquet file, with an optional MinIO upload.     *)
(* The script is one outer try block (lines 31-112) holding the startup    *)
(* calls, the optional bucket check and the table loop; the loop body has  *)
(* an inner try (lines 87-104) around COPY and fput_object only.           *)
(***************************************************************************)
EXTENDS Integers, Sequences, FiniteSets, TLC

\* Largest number of tables the catalog query returns in the model.
MaxTables == 3

\* Table names are 1..MaxTables; 0 stands for "no table" in an output line.
Names == 1..MaxTables

VARIABLES
    pc,             \* position of the script
    MINIO_ENABLED,  \* line 25
    catalog,        \* environment: the base tables of the schema, in catalog order
    bucket_present, \* environment: whether MINIO_BUCKET exists in the object store
    tables,         \* line 57: result of the catalog query
    i,              \* index of the current iteration of `for table in tables`
    dirs,           \* table directories present on disk (some left by earlier runs)
    files,          \* effect: state of each table's dump file of this run
    mkdirs,         \* history of os.makedirs calls (table names)
    copies,         \* history of COPY statements handed to DuckDB
    minio_calls,    \* history of calls on the object store client
    out,            \* the lines printed for tables, the summary and the diagnostic
    exc             \* where the most recent exception was raised ("none" if none)

vars == <<pc, MINIO_ENABLED, catalog, bucket_present, tables, i, dirs, files,
          mkdirs, copies, minio_calls, out, exc>>

\* The statements of lines 33-59, in order; each may raise.
StartupStages == <<"connect", "install", "load", "attach", "query">>

StartupSet == {StartupStages[k] : k \in 1..Len(StartupStages)}

\* The catalog results: a schema of n tables has the names 1..n (table names of
\* one schema are unique), returned in any rotation of their order, so that
\* every name occurs at every position of the result.
Catalogs ==
    {<<>>} \cup UNION {{[k \in 1..n |-> ((k + r - 1) % n) + 1] : r \in 0..(n - 1)} : n \in 1..MaxTables}

Line(kind, table, uploaded) == [kind |-> kind, table |-> table, uploaded |-> uploaded]

\* lines 17-29 and the state of the outside world before line 31
Init ==
    /\ pc = "connect"
    /\ MINIO_ENABLED \in BOOLEAN
    /\ catalog \in Catalogs
    /\ bucket_present \in BOOLEAN
    /\ tables = <<>>
    /\ i = 0
    /\ dirs \in SUBSET {catalog[k] : k \in 1..Len(catalog)}
    /\ files = [t \in Names |-> "absent"]
    /\ mkdirs = <<>>
    /\ copies = <<>>
    /\ minio_calls = <<>>
    /\ out = <<>>
    /\ exc = "none"

\* An exception raised outside the inner try reaches `except Exception` of line 111.
RaiseOuter(stage) ==
    /\ exc' = stage
    /\ pc' = "fatal"

\* line 33: duckdb.connect
Connect ==
    /\ pc = "connect"
    /\ \/ pc' = "install" /\ exc' = exc
       \/ RaiseOuter("connect")
    /\ UNCHANGED <<MINIO_ENABLED, catalog, bucket_present, tables, i, dirs, files,
                   mkdirs, copies, minio_calls, out>>

\* line 37: FORCE INSTALL of the postgres extension
InstallExtension ==
    /\ pc = "install"
    /\ \/ pc' = "load" /\ exc' = exc
       \/ RaiseOuter("install")
    /\ UNCHANGED <<MINIO_ENABLED, catalog, bucket_present, tables, i, dirs, files,
                   mkdirs, copies, minio_calls, out>>

\* line 41: LOAD postgres
LoadExtension ==
    /\ pc = "load"
    /\ \/ pc' = "attach" /\ exc' = exc
       \/ RaiseOuter("load")
    /\ UNCHANGED <<MINIO_ENABLED, catalog, bucket_present, tables, i, dirs, files,
                   mkdirs, copies, minio_calls, out>>

\* line 49: ATTACH of the PostgreSQL database
Attach ==
    /\ pc = "attach"
    /\ \/ pc' = "query" /\ exc' = exc
       \/ RaiseOuter("attach")
    /\ UNCHANGED <<MINIO_ENABLED, catalog, bucket_present, tables, i, dirs, files,
                   mkdirs, copies, minio_calls, out>>

\* A catalog query whose failure is swallowed and replaced by the listing of
\* DuckDB's own information_schema (the statement commented out at lines 54-55).
CatalogQueryFallback ==
    /\ pc = "query"
    /\ \/ tables' = catalog /\ pc' = "minio_init" /\ exc' = exc
       \/ tables' = catalog /\ pc' = "minio_init" /\ exc' = "query"
    /\ UNCHANGED <<MINIO_ENABLED, catalog, bucket_present, i, dirs, files,
                   mkdirs, copies, minio_calls, out>>

\* lines 57-59: the catalog query and fetchall
CatalogQuery ==
    /\ pc = "query"
    /\ \/ tables' = catalog /\ pc' = "minio_init" /\ exc' = exc
       \/ tables' = tables /\ RaiseOuter("query")
    /\ UNCHANGED <<MINIO_ENABLED, catalog, bucket_present, i, dirs, files,
                   mkdirs, copies, minio_calls, out>>

Call(op, table, ok) == [op |-> op, table |-> table, ok |-> ok]

\* A bucket check that only records the answer and never raises on a missing bucket.
MinioInitNoRaise ==
    /\ pc = "minio_init"
    /\ IF MINIO_ENABLED
       THEN \/ /\ minio_calls' = minio_calls \o <<Call("Minio", 0, FALSE)>>
               /\ RaiseOuter("minio")
            \/ /\ minio_calls' = minio_calls \o
                     <<Call("Minio", 0, TRUE), Call("bucket_exists", 0, FALSE)>>
               /\ RaiseOuter("bucket_exists")
            \/ /\ minio_calls' = minio_calls \o
                     <<Call("Minio", 0, TRUE), Call("bucket_exists", 0, TRUE)>>
               /\ pc' = "loop" /\ exc' = exc
       ELSE /\ pc' = "loop"
            /\ UNCHANGED <<minio_calls, exc>>
    /\ UNCHANGED <<MINIO_ENABLED, catalog, bucket_present, tables, i, dirs, files,
                   mkdirs, copies, out>>

\* The client and the bucket check of lines 63-72 without the guard of line 62.
MinioInitUnguarded ==
    /\ pc = "minio_init"
    /\ \/ /\ minio_calls' = minio_calls \o <<Call("Minio", 0, FALSE)>>
          /\ RaiseOuter("minio")
       \/ /\ minio_calls' = minio_calls \o
                <<Call("Minio", 0, TRUE), Call("bucket_exists", 0, FALSE)>>
          /\ RaiseOuter("bucket_exists")
       \/ /\ bucket_present
          /\ minio_calls' = minio_calls \o
                <<Call("Minio", 0, TRUE), Call("bucket_exists", 0, TRUE)>>
          /\ pc' = "loop" /\ exc' = exc
       \/ /\ ~bucket_present
          /\ minio_calls' = minio_calls \o
                <<Call("Minio", 0, TRUE), Call("bucket_exists", 0, TRUE)>>
          /\ RaiseOuter("bucket_missing")
    /\ UNCHANGED <<MINIO_ENABLED, catalog, bucket_present, tables, i, dirs, files,
                   mkdirs, copies, out>>

\* lines 62-72: the client is built and the bucket checked only if MINIO_ENABLED.
\* The constructor may raise (line 63), bucket_exists may raise (line 71), and a
\* missing bucket raises at line 72; all three are outside the inner try.
MinioInit ==
    /\ pc = "minio_init"
    /\ IF MINIO_ENABLED
       THEN \/ /\ minio_calls' = minio_calls \o <<Call("Minio", 0, FALSE)>>
               /\ RaiseOuter("minio")
            \/ /\ minio_calls' = minio_calls \o
                     <<Call("Minio", 0, TRUE), Call("bucket_exists", 0, FALSE)>>
               /\ RaiseOuter("bucket_exists")
            \/ /\ bucket_present
               /\ minio_calls' = minio_calls \o
                     <<Call("Minio", 0, TRUE), Call("bucket_exists", 0, TRUE)>>
               /\ pc' = "loop" /\ exc' = exc
            \/ /\ ~bucket_present
               /\ minio_calls' = minio_calls \o
                     <<Call("Minio", 0, TRUE), Call("bucket_exists", 0, TRUE)>>
               /\ RaiseOuter("bucket_missing")
       ELSE /\ pc' = "loop"
            /\ UNCHANGED <<minio_calls, exc>>
    /\ UNCHANGED <<MINIO_ENABLED, catalog, bucket_present, tables, i, dirs, files,
                   mkdirs, copies, out>>

\* line 75: the for statement takes the next table or leaves the loop
For ==
    /\ pc = "loop"
    /\ IF i < Len(tables)
       THEN i' = i + 1 /\ pc' = "naming"
       ELSE i' = i /\ pc' = "summary"
    /\ UNCHANGED <<MINIO_ENABLED, catalog, bucket_present, tables, dirs, files,
                   mkdirs, copies, minio_calls, out, exc>>

\* line 76
table_name == tables[i]

\* lines 76-85: the table directory is created if absent, the file is named.
\* os.makedirs is not inside the inner try: its exception goes to line 111.
Naming ==
    /\ pc = "naming"
    /\ IF table_name \notin dirs
       THEN /\ mkdirs' = Append(mkdirs, table_name)
            /\ \/ dirs' = dirs \cup {table_name} /\ pc' = "export" /\ exc' = exc
               \/ dirs' = dirs /\ RaiseOuter("makedirs")
       ELSE /\ pc' = "export"
            /\ UNCHANGED <<mkdirs, dirs, exc>>
    /\ UNCHANGED <<MINIO_ENABLED, catalog, bucket_present, tables, i, files,
                   copies, minio_calls, out>>

\* The result of a COPY that raised: nothing written, or an incomplete file left.
FailedFile == {"absent", "partial"}

\* A loop body whose handler around COPY only logs, so that the upload of
\* lines 94-96 runs after a failed COPY as well.
ExportFallThrough ==
    /\ pc = "export"
    /\ \/ /\ copies' = Append(copies, Call("COPY", table_name, TRUE))
          /\ files' = [files EXCEPT ![table_name] = "complete"]
          /\ exc' = exc
          /\ IF MINIO_ENABLED
             THEN /\ out' = Append(out, Line("exporting", table_name, FALSE))
                  /\ pc' = "upload"
             ELSE /\ out' = out \o <<Line("exporting", table_name, FALSE),
                                     Line("done", table_name, FALSE)>>
                  /\ pc' = "loop"
       \/ /\ copies' = Append(copies, Call("COPY", table_name, FALSE))
          /\ \E f \in FailedFile : files' = [files EXCEPT ![table_name] = f]
          /\ exc' = "copy"
          /\ IF MINIO_ENABLED
             THEN /\ out' = Append(out, Line("exporting", table_name, FALSE))
                  /\ pc' = "upload"
             ELSE /\ out' = out \o <<Line("exporting", table_name, FALSE),
                                     Line("error", table_name, FALSE)>>
                  /\ pc' = "loop"
    /\ UNCHANGED <<MINIO_ENABLED, catalog, bucket_present, tables, i, dirs,
                   mkdirs, minio_calls>>

\* lines 87-91, 94, 98-99 and 103-104: the progress line, then COPY. A COPY that
\* raises is caught by `except Exception` of line 103 and the loop goes on; a
\* COPY that returns is followed by the upload if MINIO_ENABLED, else by " done.".
Export ==
    /\ pc = "export"
    /\ \/ /\ copies' = Append(copies, Call("COPY", table_name, TRUE))
          /\ files' = [files EXCEPT ![table_name] = "complete"]
          /\ exc' = exc
          /\ IF MINIO_ENABLED
             THEN /\ out' = Append(out, Line("exporting", table_name, FALSE))
                  /\ pc' = "upload"
             ELSE /\ out' = out \o <<Line("exporting", table_name, FALSE),
                                     Line("done", table_name, FALSE)>>
                  /\ pc' = "loop"
       \/ /\ copies' = Append(copies, Call("COPY", table_name, FALSE))
          /\ \E f \in FailedFile : files' = [files EXCEPT ![table_name] = f]
          /\ exc' = "copy"
          /\ out' = out \o <<Line("exporting", table_name, FALSE),
                             Line("error", table_name, FALSE)>>
          /\ pc' = "loop"
    /\ UNCHANGED <<MINIO_ENABLED, catalog, bucket_present, tables, i, dirs,
                   mkdirs, minio_calls>>

\* lines 95-104: fput_object, then " Uploaded to MinIO" and " done."; an S3Error
\* is caught at line 101, any other exception at line 103, and the loop goes on.
Upload ==
    /\ pc = "upload"
    /\ \/ /\ minio_calls' = Append(minio_calls, Call("fput_object", table_name, TRUE))
          /\ out' = out \o <<Line("uploaded", table_name, TRUE),
                             Line("done", table_name, TRUE)>>
          /\ exc' = exc
       \/ /\ minio_calls' = Append(minio_calls, Call("fput_object", table_name, FALSE))
          /\ out' = Append(out, Line("minio_error", table_name, FALSE))
          /\ exc' = "s3"
       \/ /\ minio_calls' = Append(minio_calls, Call("fput_object", table_name, FALSE))
          /\ out' = Append(out, Line("error", table_name, FALSE))
          /\ exc' = "upload"
    /\ pc' = "loop"
    /\ UNCHANGED <<MINIO_ENABLED, catalog, bucket_present, tables, i, dirs, files,
                   mkdirs, copies>>

\* lines 106-110: the closing line, printed whenever the loop is left normally
Summary ==
    /\ pc = "summary"
    /\ out' = Append(out, Line("summary", 0, MINIO_ENABLED))
    /\ pc' = "exit"
    /\ UNCHANGED <<MINIO_ENABLED, catalog, bucket_present, tables, i, dirs, files,
                   mkdirs, copies, minio_calls, exc>>

\* lines 111-112: the outer handler prints "Error: ..." and the script ends
OuterExcept ==
    /\ pc = "fatal"
    /\ out' = Append(out, Line("fatal", 0, FALSE))
    /\ pc' = "exit"
    /\ UNCHANGED <<MINIO_ENABLED, catalog, bucket_present, tables, i, dirs, files,
                   mkdirs, copies, minio_calls, exc>>

Next ==
    \/ Connect
    \/ InstallExtension
    \/ LoadExtension
    \/ Attach
    \/ CatalogQuery
    \/ MinioInit
    \/ For
    \/ Naming
    \/ Export
    \/ Upload
    \/ Summary
    \/ OuterExcept

Spec == Init /\ [][Next]_vars

----------------------------------------------------------------------------
\* Reading the per-table pipeline state off the script's position and output.

TableSet == {tables[k] : k \in 1..Len(tables)}

Idx(t) == CHOOSE k \in 1..Len(tables) : tables[k] = t

Printed(kind, t) == \E k \in 1..Len(out) : out[k].kind = kind /\ out[k].table = t

\* The per-table results the script produces: " done." (line 99) or one of the
\* two error lines of the inner handlers (lines 102 and 104).
ResultKinds == {"done", "minio_error", "error"}

Results(t) == {k \in 1..Len(out) : out[k].kind \in ResultKinds /\ out[k].table = t}

\* Pending -> Naming -> Exporting -> (Uploading) -> Done | Failed, lines 75-104
Phase(t) ==
    IF Printed("done", t) THEN "Done"
    ELSE IF Printed("error", t) \/ Printed("minio_error", t) THEN "Failed"
    ELSE IF Idx(t) # i THEN "Pending"
    ELSE IF pc = "export" THEN "Exporting"
    ELSE IF pc = "upload" THEN "Uploading"
    ELSE "Naming"

CopyOk(t) == \E k \in 1..Len(copies) : copies[k].table = t /\ copies[k].ok

CopyFailed(t) == \E k \in 1..Len(copies) : copies[k].table = t /\ ~copies[k].ok

UploadOk(t) ==
    \E k \in 1..Len(minio_calls) :
        /\ minio_calls[k].op = "fput_object"
        /\ minio_calls[k].table = t
        /\ minio_calls[k].ok

UploadFailed(t) ==
    \E k \in 1..Len(minio_calls) :
        /\ minio_calls[k].op = "fput_object"
        /\ minio_calls[k].table = t
        /\ ~minio_calls[k].ok

\* The run is over and it had entered the table loop.
EndedAfterLoop ==
    /\ pc = "exit"
    /\ exc \notin StartupSet \cup {"minio", "bucket_exists", "bucket_missing"}

\* The iteration of table t was started (line 76 ran for it).
Attempted(t) == Phase(t) # "Pending"

\* The run ended through the outer handler of lines 111-112.
FatalPath == Printed("fatal", 0)

\* The run ended through the closing line of lines 106-110.
NormalPath == Printed("summary", 0)

FputCalls == {k \in 1..Len(minio_calls) : minio_calls[k].op = "fput_object"}

BucketChecks == {k \in 1..Len(minio_calls) : minio_calls[k].op = "bucket_exists"}

----------------------------------------------------------------------------
\* C1: in a run that reached the table loop, if the COPY of some table failed,
\* every table of the catalog result has been attempted when the run ends.
C1_ExportFailureIsolation ==
    (EndedAfterLoop /\ \E t \in TableSet : CopyFailed(t))
        => \A u \in TableSet : Attempted(u)

\* C2: a failure of os.makedirs for table T does not abort the loop: the run
\* ends on the normal path and every table of the catalog result was attempted.
C2_PathErrorIsPerTable ==
    (pc = "exit" /\ exc = "makedirs")
        => (NormalPath /\ ~FatalPath /\ \A u \in TableSet : Attempted(u))

\* C3: when a run that reached the table loop ends, every table of the catalog
\* result has exactly one result (Done or Failed), whatever step failed.
C3_OneResultPerTable ==
    EndedAfterLoop
        => \A t \in TableSet :
              /\ Cardinality(Results(t)) = 1
              /\ Phase(t) \in {"Done", "Failed"}

\* C4: the closing line never reports success for a table that ended in Failed
\* (it tells the tables that reached Done from the tables attempted).
C4_SummaryNeverReportsFailedAsSuccess ==
    NormalPath => \A t \in TableSet : Phase(t) # "Failed"

\* C5: if connect, install, load, attach or the catalog query raises, no
\* directory is created, no COPY is executed, no object store call is made, and
\* the run ends in the outer handler with its diagnostic as the only output.
C5_CatalogFailureIsFatal ==
    exc \in StartupSet
        => /\ pc \in {"fatal", "exit"}
           /\ mkdirs = <<>>
           /\ copies = <<>>
           /\ minio_calls = <<>>
           /\ \A t \in Names : files[t] = "absent"
           /\ pc = "exit" => out = <<Line("fatal", 0, FALSE)>>

\* C5 witness: the catalog query of a schema with two or more tables failed and
\* the run is over.
C5_Witness == pc = "exit" /\ exc = "query" /\ Len(catalog) >= 2

\* C6: with publishing enabled and the bucket missing, the loop is never entered:
\* no makedirs, no COPY, no upload, no closing line; and whenever the loop is
\* entered with publishing enabled, exactly one bucket check was made, before it.
C6_MissingBucketAbortsBeforeLoop ==
    /\ (MINIO_ENABLED /\ ~bucket_present)
          => /\ i = 0
             /\ pc \notin {"loop", "naming", "export", "upload", "summary"}
             /\ mkdirs = <<>>
             /\ copies = <<>>
             /\ FputCalls = {}
             /\ ~NormalPath
    /\ (MINIO_ENABLED /\ (i >= 1 \/ pc \in {"loop", "summary"}))
          => /\ Cardinality(BucketChecks) = 1
             /\ \A k \in BucketChecks : minio_calls[k].ok /\ \A f \in FputCalls : k < f

\* C6 witness: publishing enabled, bucket missing, a non-empty catalog result, and
\* the run ended on the exception of line 72.
C6_Witness ==
    /\ MINIO_ENABLED /\ ~bucket_present
    /\ pc = "exit" /\ exc = "bucket_missing"
    /\ Len(tables) >= 2

\* C7: with publishing disabled no call on the object store is ever made: no
\* client construction, no bucket check, no upload.
C7_NoObjectStoreCallWhenDisabled == ~MINIO_ENABLED => minio_calls = <<>>

\* C7 witness: publishing disabled, the run ended normally with one table
\* exported and another failed.
C7_Witness ==
    /\ ~MINIO_ENABLED
    /\ pc = "exit" /\ NormalPath
    /\ \E t, u \in TableSet : CopyOk(t) /\ CopyFailed(u)

\* C8: if the upload of table T failed, T ends in Failed without an upload
\* confirmation, the run does not take the fatal path, and every table after T
\* is still attempted.
C8_UploadFailureIsolated ==
    (pc = "exit" /\ \E t \in TableSet : UploadFailed(t))
        => /\ ~FatalPath
           /\ \A t \in TableSet :
                 UploadFailed(t)
                    => /\ Phase(t) = "Failed"
                       /\ ~Printed("uploaded", t)
                       /\ \A u \in TableSet : Idx(u) > Idx(t) => Attempted(u)

\* C9: if the COPY of a table fails after an earlier table was exported, the run
\* ends on the normal path and every file exported successfully is still complete.
C9_EarlierFilesKeptAndNormalEnd ==
    (pc = "exit" /\ \E t, u \in TableSet : Idx(t) < Idx(u) /\ CopyOk(t) /\ CopyFailed(u))
        => /\ NormalPath
           /\ ~FatalPath
           /\ \A t \in TableSet : CopyOk(t) => files[t] = "complete"

\* The moves of one table's pipeline; Done straight after Exporting only when
\* publishing is disabled.
AllowedMoves ==
    {<<"Pending", "Naming">>, <<"Naming", "Exporting">>, <<"Exporting", "Uploading">>,
     <<"Exporting", "Failed">>, <<"Uploading", "Done">>, <<"Uploading", "Failed">>}
    \cup (IF MINIO_ENABLED THEN {} ELSE {<<"Exporting", "Done">>})

C10_State ==
    \A t \in TableSet :
        /\ Phase(t) = "Uploading" => (CopyOk(t) /\ ~CopyFailed(t) /\ MINIO_ENABLED)
        /\ CopyFailed(t) => \A k \in FputCalls : minio_calls[k].table # t
        /\ Phase(t) = "Done" => (CopyOk(t) /\ (MINIO_ENABLED => UploadOk(t)))
        /\ Attempted(t) =>
              \A u \in TableSet : Idx(u) < Idx(t) => Phase(u) \in {"Done", "Failed"}
        /\ Cardinality({k \in 1..Len(copies) : copies[k].table = t}) <= 1

C10_Step ==
    \A t \in TableSet :
        Phase(t)' # Phase(t) => <<Phase(t), Phase(t)'>> \in AllowedMoves

\* C10: each table moves Pending -> Naming -> Exporting -> (Uploading) ->
\* Done | Failed in that order, one table at a time: a table is uploading only
\* after its own COPY succeeded, Done with publishing enabled only after its
\* upload succeeded, and a table is attempted only once all tables before it are
\* Done or Failed.
C10_PipelineOrder == [](C10_State) /\ [][C10_Step]_vars

\* C10 witness: publishing enabled, the run is over, one table is Done after an
\* upload, one Failed on its COPY and one Failed on its upload.
C10_Witness ==
    /\ MINIO_ENABLED /\ pc = "exit"
    /\ \E t, u, v \in TableSet :
          /\ Phase(t) = "Done" /\ UploadOk(t)
          /\ Phase(u) = "Failed" /\ CopyFailed(u)
          /\ Phase(v) = "Failed" /\ UploadFailed(v)
====
